---- MODULE Spec2Model ----
(***************************************************************************)
(* Model of cache_profiler_serial.py: the serial command/response engine   *)
(* (send_command), the register operation layer (execute_devmem,           *)
(* parse_devmem_value) and the enable / disable / read workflows run by    *)
(* main, against a device that answers over a line-oriented console.       *)
(*                                                                         *)
(* Text is a sequence of tokens.  A token is a word or a hexadecimal       *)
(* literal "0x<digits>"; neighbouring tokens are separated by one blank.   *)
(* Python's `a in b` on strings is containment of a token sequence, and    *)
(* str.strip() removes leading and trailing whitespace tokens.             *)
(***************************************************************************)
EXTENDS Integers, Sequences, FiniteSets, TLC

----------------------------------------------------------------------------
(* Bounds of the model *)

\* Chunks of output the device emits during one run of main.
MaxEmit == 3

----------------------------------------------------------------------------
(* Text *)

Tok(w) == [w |-> w, d |-> <<>>]

HexLit(ds) == [w |-> "0x", d |-> ds]

SP == Tok(" ")

CR == Tok("\\r")

NL == Tok("\\n")

Whitespace == {SP, CR, NL}

TIMEOUT == 5

PROMPT == Tok("uart:~$")

READ_VALUE == Tok("Read value")

WRITING_VALUE == Tok("Writing value")

\* Python `sub in s`
Contains(s, sub) ==
    \E i \in 0..(Len(s) - Len(sub)) : SubSeq(s, i + 1, i + Len(sub)) = sub

RECURSIVE LStrip(_)
LStrip(s) ==
    IF s # <<>> /\ Head(s) \in Whitespace THEN LStrip(Tail(s)) ELSE s

RECURSIVE RStrip(_)
RStrip(s) ==
    IF s # <<>> /\ s[Len(s)] \in Whitespace
    THEN RStrip(SubSeq(s, 1, Len(s) - 1))
    ELSE s

\* str.strip()
Strip(s) == RStrip(LStrip(s))

HexDigitValue(c) ==
    CASE c = "0" -> 0 [] c = "1" -> 1 [] c = "2" -> 2 [] c = "3" -> 3
      [] c = "4" -> 4 [] c = "5" -> 5 [] c = "6" -> 6 [] c = "7" -> 7
      [] c = "8" -> 8 [] c = "9" -> 9
      [] c \in {"a", "A"} -> 10 [] c \in {"b", "B"} -> 11
      [] c \in {"c", "C"} -> 12 [] c \in {"d", "D"} -> 13
      [] c \in {"e", "E"} -> 14 [] c \in {"f", "F"} -> 15

\* int(hex_value, 16): the digits folded from the left
RECURSIVE IntOfHex(_)
IntOfHex(ds) ==
    IF ds = <<>> THEN 0
    ELSE IntOfHex(SubSeq(ds, 1, Len(ds) - 1)) * 16 + HexDigitValue(ds[Len(ds)])

LowerHexDigits ==
    <<"0", "1", "2", "3", "4", "5", "6", "7",
      "8", "9", "a", "b", "c", "d", "e", "f">>

RECURSIVE HexDigitsOf(_, _)
HexDigitsOf(n, width) ==
    IF width = 0 /\ n = 0 THEN <<>>
    ELSE Append(HexDigitsOf(n \div 16, IF width = 0 THEN 0 ELSE width - 1),
                LowerHexDigits[(n % 16) + 1])

\* A 32-bit register address, kept as two 16-bit halves.
Addr(hi, lo) == [hi |-> hi, lo |-> lo]

\* base + offset on 32-bit addresses
AddOffset(base, offset) ==
    LET s == base.lo + offset
    IN  Addr((base.hi + (s \div 65536)) % 65536, s % 65536)

\* the address printed with capital hexadecimal digits, "0x{reg:08X}"
FormatAddressUpper(reg) ==
    LET ds == HexDigitsOf(reg.hi, 4) \o HexDigitsOf(reg.lo, 4)
        upper == <<"0", "1", "2", "3", "4", "5", "6", "7",
                   "8", "9", "A", "B", "C", "D", "E", "F">>
    IN  HexLit([i \in 1..Len(ds) |-> upper[HexDigitValue(ds[i]) + 1]])

\* f"0x{reg:08x}"
FormatAddress(reg) == HexLit(HexDigitsOf(reg.hi, 4) \o HexDigitsOf(reg.lo, 4))

\* f"{n}" for the decimal numbers the program prints into commands
DecTok(n) ==
    CASE n = 0 -> Tok("0") [] n = 1 -> Tok("1") [] n = 32 -> Tok("32")

----------------------------------------------------------------------------
(* Values of the Python program: None, a bool, an int *)

None == [k |-> "None", v |-> 0]

PyTrue == [k |-> "bool", v |-> 1]

PyFalse == [k |-> "bool", v |-> 0]

PyInt(n) == [k |-> "int", v |-> n]

\* truth value of `if x:`
Truthy(x) == x.k # "None" /\ x.v # 0

----------------------------------------------------------------------------
(* Platform tables *)

PLATFORM_CONFIGS ==
    [nrf5340 |->
        [base |-> Addr(20480, 4096), enable_offset |-> 1292,
         inst_hit_offset |-> 1024, inst_miss_offset |-> 1028,
         data_hit_offset |-> 1032, data_miss_offset |-> 1036,
         has_inst |-> TRUE, has_data |-> TRUE],
     nrf7002 |->
        [base |-> Addr(20480, 4096), enable_offset |-> 1292,
         inst_hit_offset |-> 1024, inst_miss_offset |-> 1028,
         data_hit_offset |-> 1032, data_miss_offset |-> 1036,
         has_inst |-> TRUE, has_data |-> TRUE],
     nrf54l15 |->
        [base |-> Addr(57352, 8192), enable_offset |-> 1044,
         clear_offset |-> 1048, hit_offset |-> 1052,
         miss_offset |-> 1056, lmiss_offset |-> 1060,
         has_inst |-> FALSE, has_data |-> FALSE]]

\* the platforms a run is started with
Platforms == {"nrf5340", "nrf54l15"}

EnableReg(platform) ==
    FormatAddress(AddOffset(PLATFORM_CONFIGS[platform].base,
                            PLATFORM_CONFIGS[platform].enable_offset))

----------------------------------------------------------------------------
(* Register operation layer: pure parts *)

\* the value tested for truth, `if value:`: the value 0 makes a read
DevmemCommandTruthy(address, value, width) ==
    IF Truthy(value)
    THEN <<Tok("devmem"), address, DecTok(width), DecTok(value.v)>>
    ELSE <<Tok("devmem"), address, DecTok(width)>>

\* f"devmem {address} {width} {value}" / f"devmem {address} {width}"
DevmemCommand(address, value, width) ==
    IF value # None
    THEN <<Tok("devmem"), address, DecTok(width), DecTok(value.v)>>
    ELSE <<Tok("devmem"), address, DecTok(width)>>

\* positions where r"Read value (0x[0-9a-fA-F]+)" matches
ReadValueMatches(response) ==
    {i \in 1..(Len(response) - 1) :
        /\ response[i] = READ_VALUE
        /\ response[i + 1].w = "0x"
        /\ Len(response[i + 1].d) >= 1}

SetMin(S) == CHOOSE x \in S : \A y \in S : x <= y

\* parse_devmem_value with the value tested for truth: 0 is lost
parse_zero_is_none(response) ==
    IF ReadValueMatches(response) # {}
       /\ IntOfHex(response[SetMin(ReadValueMatches(response)) + 1].d) # 0
    THEN PyInt(IntOfHex(response[SetMin(ReadValueMatches(response)) + 1].d))
    ELSE None

\* parse_devmem_value answering 0 when nothing was read
parse_default_zero(response) ==
    IF ReadValueMatches(response) # {}
    THEN PyInt(IntOfHex(response[SetMin(ReadValueMatches(response)) + 1].d))
    ELSE PyInt(0)

parse_devmem_value(response) ==
    IF ReadValueMatches(response) # {}
    THEN PyInt(IntOfHex(response[SetMin(ReadValueMatches(response)) + 1].d))
    ELSE IF Contains(response, <<READ_VALUE, HexLit(<<"0">>)>>)
         THEN PyInt(0)
         ELSE None

\* execute_devmem without its guard for an empty response
NoResponseUnchecked(response) == FALSE

\* `not response.strip()`: no response at all
NoResponse(response) == Strip(response) = <<>>

\* the write branch taking any text for a success
WriteSucceededAnyText(response) ==
    \/ Contains(response, <<WRITING_VALUE>>)
    \/ Contains(response, <<PROMPT>>)
    \/ Strip(response) # <<>>

\* the write branch of execute_devmem
WriteSucceeded(response) ==
    \/ Contains(response, <<WRITING_VALUE>>)
    \/ Contains(response, <<PROMPT>>)
    \/ Strip(response) = <<>>

\* execute_devmem after send_command returned `response`
ExecuteDevmemResult(response, value) ==
    IF NoResponse(response) THEN None
    ELSE IF value # None
         THEN (IF WriteSucceeded(response) THEN PyTrue ELSE PyFalse)
         ELSE parse_devmem_value(response)

----------------------------------------------------------------------------
(* State *)

VARIABLES
    pc,              \* where main and the workflow it runs stand
    platform,        \* args.platform
    port,            \* the serial handle: "closed" | "open"
    eng,             \* send_command: "IDLE" | "SENT" | "COLLECT" | "DONE"
    command,         \* send_command's command
    value,           \* execute_devmem's value (None for a read)
    response,        \* send_command's response so far
    command_echoed,  \* send_command's command_echoed
    elapsed,         \* time.time() - start_time, in ticks
    ret,             \* what send_command returned last
    result,          \* what execute_devmem / parse_devmem_value returned last
    inbuf,           \* the transport's input buffer: chunks of lines
    emitted,         \* chunks the device has emitted
    devCmd,          \* the command the device is answering
    devLate,         \* the device is still answering an earlier command
    written,         \* commands written to the transport
    returned,        \* responses send_command has returned
    recv,            \* the lines readline handed to the current send_command
    exitReason,      \* how the last send_command left its loop
    leak,            \* the response holds text answering an earlier command
    preFlush,        \* the response holds text received before the flush
    flushed,         \* chunks the last flush discarded
    caller,          \* who called send_command
    probe,           \* test_serial_connection: the test command in turn
    probes,          \* test commands written to the transport
    outcome,         \* what the workflow reported: "none" | "ok" | "failed"
    counters,        \* read_cache_counters: the counters read, in order
    missing,         \* read_cache_counters: the counters that were unreadable
    idx,             \* read_cache_counters: the counter read in turn
    enabled,         \* what check_cache_profiling_enabled returned
    summary,         \* read_cache_counters: the aggregates the summary shows
    configs,         \* the module's PLATFORM_CONFIGS table
    args_command,    \* args.command
    opens,           \* times this invocation opened the serial port
    runs,            \* invocations of the program so far
    prev,            \* the command and the report of the invocation before
    reg,             \* the device's enable register
    dropped,         \* the device left a command unanswered
    partial,         \* readline handed over a line without its line end
    available_ports, \* auto_detect_serial_port: the ports that could be opened
    port_i,          \* auto_detect_serial_port: the port tried in turn
    baud_i,          \* auto_detect_serial_port: the baud rate tried in turn
    detected,        \* what auto_detect_serial_port returned
    swept            \* the (port, baud) pairs tried, with what came of each

vars == <<pc, platform, port, eng, command, value, response, command_echoed,
          elapsed, ret, result, inbuf, emitted, devCmd, devLate, written,
          returned, recv, exitReason, leak, preFlush, flushed, caller, probe,
          probes, outcome, counters, missing, idx, enabled, summary, configs,
          args_command, opens, runs, prev, reg, dropped, partial,
          available_ports, port_i, baud_i, detected, swept>>

wfVars == <<probe, probes, outcome, counters, missing, idx, enabled, summary>>

detVars == <<available_ports, port_i, baud_i, detected, swept>>

mainVars == <<configs, args_command, opens, runs, prev, detVars>>

engVars == <<eng, command, value, response, command_echoed, elapsed, ret,
             recv, exitReason, leak, preFlush, flushed, caller, written,
             returned, partial>>

devVars == <<emitted, devCmd, devLate, reg, dropped>>

\* The clock counts whole time units.  The port's read timeout (line 599).
READ_TIMEOUT == 1

\* the clock is not read beyond this
ElapsedCap == TIMEOUT + READ_TIMEOUT

Min(a, b) == IF a < b THEN a ELSE b

----------------------------------------------------------------------------
(* The device *)

\* hexadecimal literals the device reports
DevHex == {<<"0">>, <<"0", "0", "0", "0", "0", "0", "0", "1">>, <<"2", "A">>}

\* what the device prints in one piece
DevChunks ==
    {<<READ_VALUE, HexLit(h)>> : h \in DevHex}
    \cup {<<WRITING_VALUE, HexLit(<<"1">>)>>, <<PROMPT>>, <<Tok("err")>>, <<>>}
    \cup (IF devCmd # <<>> THEN {devCmd} ELSE {})

\* what the device may leave without a line end: its prompt, and log text
Unterminated == {<<PROMPT>>, <<Tok("err")>>}

\* The device sends a chunk, ended by "\r\n" (nl) or left unterminated after
\* a blank.  Bytes that follow an unterminated chunk belong to the same line.
DevEmit ==
    /\ port = "open"
    /\ emitted < MaxEmit
    /\ \E text \in DevChunks, nl \in BOOLEAN :
         LET piece == IF nl THEN text ELSE text \o <<SP>>
             n == Len(inbuf)
         IN  /\ (~nl => text \in Unterminated)
             /\ inbuf' =
                  IF n > 0 /\ ~inbuf[n].nl
                  THEN [inbuf EXCEPT ![n] =
                          [text |-> @.text \o piece, nl |-> nl,
                           stale |-> @.stale \/ devLate, at |-> @.at]]
                  ELSE Append(inbuf, [text |-> piece, nl |-> nl,
                                      stale |-> devLate, at |-> written])
    /\ emitted' = emitted + 1
    /\ UNCHANGED <<pc, platform, port, result, devCmd, devLate, reg,
                   dropped>>
    /\ UNCHANGED engVars
    /\ UNCHANGED wfVars
    /\ UNCHANGED mainVars

\* The device finishes the earlier command and turns to the current one.
DevCatchUp ==
    /\ devLate
    /\ port = "open"
    /\ devLate' = FALSE
    /\ devCmd' = command
    /\ UNCHANGED <<pc, platform, port, result, inbuf, emitted, reg,
                   dropped>>
    /\ UNCHANGED engVars
    /\ UNCHANGED wfVars
    /\ UNCHANGED mainVars

----------------------------------------------------------------------------
(* send_command *)

\* send_command without reset_input_buffer
SendNoFlush(cmd, val, who) ==
    /\ eng = "IDLE"
    /\ inbuf' = inbuf
    /\ flushed' = 0
    /\ caller' = who
    /\ command' = cmd
    /\ value' = val
    /\ written' = written + 1
    /\ devLate' \in (IF written + probes > 0 /\ emitted < MaxEmit
                     THEN BOOLEAN ELSE {FALSE})
    /\ devCmd' = IF devLate' THEN devCmd ELSE cmd
    /\ eng' = "SENT"
    /\ ret' = <<>>
    /\ result' = None
    /\ recv' = <<>>
    /\ exitReason' = "none"
    /\ leak' = FALSE
    /\ preFlush' = FALSE
    /\ partial' = FALSE
    /\ UNCHANGED <<response, command_echoed, elapsed, returned, emitted, reg,
                   dropped>>

\* send_command writing the command twice
SendTwice(cmd, val, who) ==
    /\ eng = "IDLE"
    /\ inbuf' = <<>>
    /\ flushed' = Len(inbuf)
    /\ caller' = who
    /\ command' = cmd
    /\ value' = val
    /\ written' = written + 2
    /\ devLate' \in (IF written + probes > 0 /\ emitted < MaxEmit
                     THEN BOOLEAN ELSE {FALSE})
    /\ devCmd' = IF devLate' THEN devCmd ELSE cmd
    /\ eng' = "SENT"
    /\ ret' = <<>>
    /\ result' = None
    /\ recv' = <<>>
    /\ exitReason' = "none"
    /\ leak' = FALSE
    /\ preFlush' = FALSE
    /\ partial' = FALSE
    /\ UNCHANGED <<response, command_echoed, elapsed, returned, emitted, reg,
                   dropped>>

\* lines 181-184: flush the input buffer, write the command
Send(cmd, val, who) ==
    /\ eng = "IDLE"
    /\ inbuf' = <<>>
    /\ flushed' = Len(inbuf)
    /\ caller' = who
    /\ command' = cmd
    /\ value' = val
    /\ written' = written + 1
    /\ devLate' \in (IF written + probes > 0 /\ emitted < MaxEmit
                     THEN BOOLEAN ELSE {FALSE})
    /\ devCmd' = IF devLate' THEN devCmd ELSE cmd
    /\ eng' = "SENT"
    /\ ret' = <<>>
    /\ result' = None
    /\ recv' = <<>>
    /\ exitReason' = "none"
    /\ leak' = FALSE
    /\ preFlush' = FALSE
    /\ partial' = FALSE
    /\ UNCHANGED <<response, command_echoed, elapsed, returned, emitted, reg,
                   dropped>>

\* lines 185-190: the settle delay, then the locals of the read loop
Settle ==
    /\ eng = "SENT"
    /\ response' = <<>>
    /\ elapsed' = 0
    /\ command_echoed' = FALSE
    /\ eng' = "COLLECT"
    /\ UNCHANGED <<pc, platform, port, command, value, ret, result, inbuf,
                   written, returned, recv, exitReason, leak, preFlush,
                   flushed, caller, partial>>
    /\ UNCHANGED devVars
    /\ UNCHANGED wfVars
    /\ UNCHANGED mainVars

\* a loop that never looks at the clock
LoopForever(t) == TRUE

\* line 192: the loop condition
LoopContinues(t) == t < TIMEOUT

\* the echo is never recognised
IsEchoDropped(echoed, cmd, line) == FALSE

\* every line that holds the command is taken for an echo
IsEchoEvery(echoed, cmd, line) == Contains(line, cmd)

\* line 198: the line is the command's echo
IsEcho(echoed, cmd, line) == ~echoed /\ Contains(line, cmd)

\* only the idle prompt ends the collection
IsTerminalPromptOnly(line) == Contains(line, <<PROMPT>>)

\* line 204: the line ends the collection
IsTerminal(line) ==
    \/ Contains(line, <<PROMPT>>)
    \/ Contains(line, <<READ_VALUE>>)
    \/ Contains(line, <<WRITING_VALUE>>)

\* a reader that yields nothing for a line without its line end
ReadlineCompleteOnly(chunk) ==
    IF chunk.nl THEN chunk.text \o <<CR, NL>> ELSE <<>>

\* ser.readline() on a non-empty buffer: a terminated line at once, an
\* unterminated one when the port's read timeout (1 time unit) is over
ReadlineRaw(chunk) == IF chunk.nl THEN chunk.text \o <<CR, NL>> ELSE chunk.text

ReadlineTicks(chunk) == IF chunk.nl THEN 0 ELSE READ_TIMEOUT

\* lines 193-205: one turn of the loop with input waiting
ReadLine ==
    /\ eng = "COLLECT"
    /\ LoopContinues(elapsed)
    /\ inbuf # <<>>
    /\ LET chunk == Head(inbuf)
           line == Strip(ReadlineRaw(chunk))
       IN  /\ inbuf' = Tail(inbuf)
           /\ elapsed' = Min(ElapsedCap, elapsed + ReadlineTicks(chunk))
           /\ recv' = Append(recv, line)
           /\ partial' = (partial \/ ~chunk.nl)
           /\ IF line = <<>>
              THEN UNCHANGED <<command_echoed, response, eng, ret, returned,
                               exitReason, leak, preFlush, flushed, caller>>
              ELSE IF IsEcho(command_echoed, command, line)
              THEN /\ command_echoed' = TRUE
                   /\ UNCHANGED <<response, eng, ret, returned, exitReason,
                                  leak, preFlush, flushed, caller>>
              ELSE /\ response' = response \o line \o <<NL>>
                   /\ leak' = (leak \/ chunk.stale)
                   /\ preFlush' = (preFlush \/ chunk.at < written)
                   /\ IF IsTerminal(line)
                      THEN /\ eng' = "DONE"
                           /\ ret' = response'
                           /\ returned' = returned + 1
                           /\ exitReason' = "marker"
                      ELSE UNCHANGED <<eng, ret, returned, exitReason>>
                   /\ UNCHANGED command_echoed
    /\ UNCHANGED <<pc, platform, port, command, value, result, written,
                   flushed, caller>>
    /\ UNCHANGED devVars
    /\ UNCHANGED wfVars
    /\ UNCHANGED mainVars

\* lines 206-207: nothing is waiting; the loop sleeps and polls until the
\* clock shows the next time unit
PollSleep ==
    /\ eng = "COLLECT"
    /\ LoopContinues(elapsed)
    /\ inbuf = <<>>
    /\ elapsed' = Min(ElapsedCap, elapsed + 1)
    /\ UNCHANGED <<pc, platform, port, eng, command, value, response,
                   command_echoed, ret, result, inbuf, written, returned,
                   recv, exitReason, leak, preFlush, flushed, caller, partial>>
    /\ UNCHANGED devVars
    /\ UNCHANGED wfVars
    /\ UNCHANGED mainVars

\* on the deadline the command is written again and the wait starts over
DeadlineRetry ==
    /\ eng = "COLLECT"
    /\ ~LoopContinues(elapsed)
    /\ written' = written + 1
    /\ elapsed' = 0
    /\ UNCHANGED <<pc, platform, port, eng, command, value, response,
                   command_echoed, ret, returned, exitReason, result, inbuf,
                   recv, leak, preFlush, flushed, caller, partial>>
    /\ UNCHANGED devVars
    /\ UNCHANGED wfVars
    /\ UNCHANGED mainVars

\* on the deadline the partial response is thrown away
DeadlineDropsPartial ==
    /\ eng = "COLLECT"
    /\ ~LoopContinues(elapsed)
    /\ eng' = "DONE"
    /\ ret' = <<>>
    /\ returned' = returned + 1
    /\ exitReason' = "deadline"
    /\ UNCHANGED <<pc, platform, port, command, value, response,
                   command_echoed, elapsed, result, inbuf, written, recv,
                   leak, preFlush, flushed, caller, partial>>
    /\ UNCHANGED devVars
    /\ UNCHANGED wfVars
    /\ UNCHANGED mainVars

\* lines 192, 208-209: the deadline is over, return what was collected
Deadline ==
    /\ eng = "COLLECT"
    /\ ~LoopContinues(elapsed)
    /\ eng' = "DONE"
    /\ ret' = response
    /\ returned' = returned + 1
    /\ exitReason' = "deadline"
    /\ UNCHANGED <<pc, platform, port, command, value, response,
                   command_echoed, elapsed, result, inbuf, written, recv,
                   leak, preFlush, flushed, caller, partial>>
    /\ UNCHANGED devVars
    /\ UNCHANGED wfVars
    /\ UNCHANGED mainVars

----------------------------------------------------------------------------
(* main and the workflows *)

Commands == {"enable", "disable", "read", "bogus"}

\* the caller takes send_command's return value; send_command's locals end
Resume ==
    /\ eng = "DONE"
    /\ eng' = "IDLE"
    /\ response' = <<>>
    /\ command_echoed' = FALSE
    /\ elapsed' = 0
    /\ UNCHANGED <<command, value, ret, written, returned, recv, exitReason,
                   leak, preFlush, flushed, caller, partial>>

\* line 80
test_commands ==
    <<<<CR>>, <<NL>>, <<CR, NL>>, <<Tok("help"), CR, NL>>,
      <<Tok("version"), CR, NL>>>>

\* lines 75-77: test_serial_connection clears the buffers
EnableStart ==
    /\ pc = "enable"
    /\ inbuf' = <<>>
    /\ probe' = 1
    /\ pc' = "probe_write"
    /\ UNCHANGED <<platform, port, result, probes, outcome, counters, missing,
                   idx, enabled, summary>>
    /\ UNCHANGED engVars
    /\ UNCHANGED devVars
    /\ UNCHANGED mainVars

\* lines 84-86: a test command is written
ProbeWrite ==
    /\ pc = "probe_write"
    /\ probes' = probes + 1
    /\ pc' = "probe_read"
    /\ UNCHANGED <<platform, port, result, inbuf, probe, outcome, counters,
                   missing, idx, enabled, summary>>
    /\ UNCHANGED engVars
    /\ UNCHANGED devVars
    /\ UNCHANGED mainVars

RECURSIVE BufferText(_)
\* ser.read(ser.in_waiting): every byte that is waiting
BufferText(buf) ==
    IF buf = <<>> THEN <<>>
    ELSE ReadlineRaw(Head(buf)) \o BufferText(Tail(buf))

\* lines 89-100, 257-264: the reply to the test command is looked at
ProbeRead ==
    /\ pc = "probe_read"
    /\ inbuf' = <<>>
    /\ IF Strip(BufferText(inbuf)) # <<>>
       THEN /\ pc' = "enable_write"
            /\ UNCHANGED <<probe, outcome>>
       ELSE IF probe < Len(test_commands)
       THEN /\ probe' = probe + 1
            /\ pc' = "probe_write"
            /\ UNCHANGED outcome
       ELSE /\ outcome' = "failed"
            /\ pc' = "close"
            /\ UNCHANGED probe
    /\ UNCHANGED <<platform, port, result, probes, counters, missing, idx,
                   enabled, summary>>
    /\ UNCHANGED engVars
    /\ UNCHANGED devVars
    /\ UNCHANGED mainVars

\* the readback tested for truth before it is compared
ReadbackMatchesTruthy(readback, expected) ==
    Truthy(readback) /\ readback.v = expected

\* lines 272, 292: `readback == 1`, `readback == 0`
ReadbackMatches(readback, expected) ==
    readback # None /\ readback.v = expected

\* line 266: execute_devmem(ser, enable_reg, value=1, width=32) is called
EnableWrite ==
    /\ pc = "enable_write"
    /\ Send(DevmemCommand(EnableReg(platform), PyInt(1), 32), PyInt(1),
            "execute_devmem")
    /\ pc' = "enable_written"
    /\ UNCHANGED <<platform, port>>
    /\ UNCHANGED wfVars
    /\ UNCHANGED mainVars

\* lines 233-249, 267-268, 279-280: execute_devmem returns, enable goes on
EnableAfterWrite ==
    /\ pc = "enable_written"
    /\ Resume
    /\ result' = ExecuteDevmemResult(ret, value)
    /\ IF Truthy(result')
       THEN pc' = "enable_readback" /\ UNCHANGED outcome
       ELSE pc' = "close" /\ outcome' = "failed"
    /\ UNCHANGED <<platform, port, inbuf, probe, probes, counters, missing,
                   idx, enabled, summary>>
    /\ UNCHANGED devVars
    /\ UNCHANGED mainVars

\* line 269: send_command(ser, f"devmem {enable_reg} 32")
EnableReadback ==
    /\ pc = "enable_readback"
    /\ Send(DevmemCommand(EnableReg(platform), None, 32), None,
            "enable_cache_profiling")
    /\ pc' = "enable_read"
    /\ UNCHANGED <<platform, port>>
    /\ UNCHANGED wfVars
    /\ UNCHANGED mainVars

\* lines 271-277: the readback is parsed and compared with 1
EnableAfterReadback ==
    /\ pc = "enable_read"
    /\ Resume
    /\ result' = parse_devmem_value(ret)
    /\ outcome' = IF ReadbackMatches(result', 1) THEN "ok" ELSE "failed"
    /\ pc' = "close"
    /\ UNCHANGED <<platform, port, inbuf, probe, probes, counters, missing,
                   idx, enabled, summary>>
    /\ UNCHANGED devVars
    /\ UNCHANGED mainVars

\* line 286: execute_devmem(ser, enable_reg, value=0, width=32) is called
DisableWrite ==
    /\ pc = "disable"
    /\ Send(DevmemCommand(EnableReg(platform), PyInt(0), 32), PyInt(0),
            "execute_devmem")
    /\ pc' = "disable_written"
    /\ UNCHANGED <<platform, port>>
    /\ UNCHANGED wfVars
    /\ UNCHANGED mainVars

\* lines 233-249, 287-288, 297: execute_devmem returns, disable goes on
DisableAfterWrite ==
    /\ pc = "disable_written"
    /\ Resume
    /\ result' = ExecuteDevmemResult(ret, value)
    /\ IF Truthy(result')
       THEN pc' = "disable_readback" /\ UNCHANGED outcome
       ELSE pc' = "close" /\ outcome' = "failed"
    /\ UNCHANGED <<platform, port, inbuf, probe, probes, counters, missing,
                   idx, enabled, summary>>
    /\ UNCHANGED devVars
    /\ UNCHANGED mainVars

\* line 289: send_command(ser, f"devmem {enable_reg} 32")
DisableReadback ==
    /\ pc = "disable_readback"
    /\ Send(DevmemCommand(EnableReg(platform), None, 32), None,
            "disable_cache_profiling")
    /\ pc' = "disable_read"
    /\ UNCHANGED <<platform, port>>
    /\ UNCHANGED wfVars
    /\ UNCHANGED mainVars

\* lines 291-295: the readback is parsed and compared with 0
DisableAfterReadback ==
    /\ pc = "disable_read"
    /\ Resume
    /\ result' = parse_devmem_value(ret)
    /\ outcome' = IF ReadbackMatches(result', 0) THEN "ok" ELSE "failed"
    /\ pc' = "close"
    /\ UNCHANGED <<platform, port, inbuf, probe, probes, counters, missing,
                   idx, enabled, summary>>
    /\ UNCHANGED devVars
    /\ UNCHANGED mainVars

\* lines 339-342: the profile has the unified hit / miss / line-miss layout
IsUnified(name, cfg) ==
    \/ name = "nrf54l15"
    \/ (~cfg.has_inst /\ ~cfg.has_data)

\* lines 347-355, 370-395: the counters read, in order, with their offsets
CounterPlan(name, cfg) ==
    IF IsUnified(name, cfg)
    THEN <<[name |-> "hit", offset |-> cfg.hit_offset],
           [name |-> "miss", offset |-> cfg.miss_offset]>>
         \o (IF "lmiss_offset" \in DOMAIN cfg
             THEN <<[name |-> "line_miss", offset |-> cfg.lmiss_offset]>>
             ELSE <<>>)
    ELSE (IF cfg.has_inst
          THEN <<[name |-> "instruction_hit", offset |-> cfg.inst_hit_offset],
                 [name |-> "instruction_miss",
                  offset |-> cfg.inst_miss_offset]>>
          ELSE <<>>)
         \o (IF cfg.has_data
             THEN <<[name |-> "data_hit", offset |-> cfg.data_hit_offset],
                    [name |-> "data_miss", offset |-> cfg.data_miss_offset]>>
             ELSE <<>>)

\* platform_config.get("name", "nrf54l15")
ConfigName(cfg) == IF "name" \in DOMAIN cfg THEN cfg.name ELSE "nrf54l15"

Plan == CounterPlan(ConfigName(configs[platform]), configs[platform])

\* the check taking any value that was read for "enabled"
CheckEnabledNotNone(res) == res # None

\* lines 304-310: enabled when the register was read and is not 0
CheckEnabled(res) == res # None /\ res.v # 0

\* lines 326-327, 303: the enable register is read
ReadCheck ==
    /\ pc = "read"
    /\ Send(DevmemCommand(EnableReg(platform), None, 32), None,
            "execute_devmem")
    /\ pc' = "read_checked"
    /\ UNCHANGED <<platform, port>>
    /\ UNCHANGED wfVars
    /\ UNCHANGED mainVars

\* lines 304-310, 327-336: enabled or not; not enabled returns {}
ReadAfterCheck ==
    /\ pc = "read_checked"
    /\ Resume
    /\ result' = ExecuteDevmemResult(ret, value)
    /\ counters' = <<>>
    /\ missing' = <<>>
    /\ idx' = 1
    /\ enabled' = CheckEnabled(result')
    /\ IF enabled'
       THEN pc' = "read_counter" /\ UNCHANGED outcome
       ELSE pc' = "close" /\ outcome' = "failed"
    /\ UNCHANGED <<platform, port, inbuf, probe, probes, summary>>
    /\ UNCHANGED devVars
    /\ UNCHANGED mainVars

\* lines 350-355, 376-377, 394-395: execute_devmem(ser, f"0x{reg:08x}")
ReadCounter ==
    /\ pc = "read_counter"
    /\ idx <= Len(Plan)
    /\ Send(DevmemCommand(
              FormatAddress(AddOffset(configs[platform].base,
                                      Plan[idx].offset)),
              None, 32), None, "execute_devmem")
    /\ pc' = "read_counted"
    /\ UNCHANGED <<platform, port>>
    /\ UNCHANGED wfVars
    /\ UNCHANGED mainVars

\* a counter that cannot be read ends the reading of counters
ReadAfterCounterStopsOnFailure ==
    /\ pc = "read_counted"
    /\ Resume
    /\ result' = ExecuteDevmemResult(ret, value)
    /\ IF result' # None
       THEN /\ counters' = Append(counters,
                                  [name |-> Plan[idx].name, val |-> result'.v])
            /\ UNCHANGED missing
       ELSE /\ missing' = Append(missing, Plan[idx].name)
            /\ UNCHANGED counters
    /\ idx' = (IF result' # None THEN idx + 1 ELSE Len(Plan) + 1)
    /\ pc' = "read_counter"
    /\ UNCHANGED <<platform, port, inbuf, probe, probes, outcome, enabled,
                   summary>>
    /\ UNCHANGED devVars
    /\ UNCHANGED mainVars

\* lines 356-367, 379-386, 397-404: the value is kept, or the name is missing
ReadAfterCounter ==
    /\ pc = "read_counted"
    /\ Resume
    /\ result' = ExecuteDevmemResult(ret, value)
    /\ IF result' # None
       THEN /\ counters' = Append(counters,
                                  [name |-> Plan[idx].name, val |-> result'.v])
            /\ UNCHANGED missing
       ELSE /\ missing' = Append(missing, Plan[idx].name)
            /\ UNCHANGED counters
    /\ idx' = idx + 1
    /\ pc' = "read_counter"
    /\ UNCHANGED <<platform, port, inbuf, probe, probes, outcome, enabled,
                   summary>>
    /\ UNCHANGED devVars
    /\ UNCHANGED mainVars

\* `name in counters`
HasCounter(cs, name) == \E i \in 1..Len(cs) : cs[i].name = name

\* "N/A", the default of counters.get
NA == [k |-> "N/A", v |-> 0]

\* counters.get(name, "N/A")
CounterGet(cs, name) ==
    IF HasCounter(cs, name)
    THEN PyInt((CHOOSE c \in {cs[i] : i \in 1..Len(cs)} : c.name = name).val)
    ELSE NA

\* lines 313-318: the hit rate in percent, as the fraction num / den
calculate_hit_rate(hits, misses) ==
    IF hits + misses = 0
    THEN [num |-> 0, den |-> 1]
    ELSE [num |-> hits * 100, den |-> hits + misses]

\* Total and Hit Rate are printed as N/A, or not at all
NotShown == [shown |-> FALSE, total |-> 0, hit_rate |-> [num |-> 0, den |-> 1]]

\* both counters were wanted, only one was there
GroupAggregateEither(hits, misses) ==
    IF hits # NA \/ misses # NA
    THEN [shown |-> TRUE, total |-> hits.v + misses.v,
          hit_rate |-> calculate_hit_rate(hits.v, misses.v)]
    ELSE NotShown

\* lines 420-427, 440-447, 462-469: Total and Hit Rate of a counter group
GroupAggregate(hits, misses) ==
    IF hits # NA /\ misses # NA
    THEN [shown |-> TRUE, total |-> hits.v + misses.v,
          hit_rate |-> calculate_hit_rate(hits.v, misses.v)]
    ELSE NotShown

\* lines 475-491: the overall figures of a split profile
OverallAggregate(cs) ==
    IF /\ HasCounter(cs, "instruction_hit")
       /\ HasCounter(cs, "instruction_miss")
       /\ HasCounter(cs, "data_hit")
       /\ HasCounter(cs, "data_miss")
    THEN LET total_hits == CounterGet(cs, "instruction_hit").v
                           + CounterGet(cs, "data_hit").v
             total_misses == CounterGet(cs, "instruction_miss").v
                             + CounterGet(cs, "data_miss").v
         IN  [shown |-> TRUE, total |-> total_hits + total_misses,
              hit_rate |-> calculate_hit_rate(total_hits, total_misses)]
    ELSE NotShown

NoSummary ==
    [cache |-> NotShown, instruction |-> NotShown, data |-> NotShown,
     overall |-> NotShown]

\* lines 411-500: the aggregates the summary shows
Summary(cs) ==
    IF HasCounter(cs, "hit") \/ HasCounter(cs, "miss")
       \/ HasCounter(cs, "line_miss")
    THEN [NoSummary EXCEPT
            !.cache = GroupAggregate(CounterGet(cs, "hit"),
                                     CounterGet(cs, "miss"))]
    ELSE [NoSummary EXCEPT
            !.instruction =
                IF HasCounter(cs, "instruction_hit")
                   \/ HasCounter(cs, "instruction_miss")
                THEN GroupAggregate(CounterGet(cs, "instruction_hit"),
                                    CounterGet(cs, "instruction_miss"))
                ELSE NotShown,
            !.data =
                IF HasCounter(cs, "data_hit") \/ HasCounter(cs, "data_miss")
                THEN GroupAggregate(CounterGet(cs, "data_hit"),
                                    CounterGet(cs, "data_miss"))
                ELSE NotShown,
            !.overall = OverallAggregate(cs)]

\* lines 406-504: the summary is printed and counters returned
ReadSummary ==
    /\ pc = "read_counter"
    /\ idx > Len(Plan)
    /\ summary' = Summary(counters)
    /\ outcome' = "ok"
    /\ pc' = "close"
    /\ UNCHANGED <<platform, port, result, inbuf, probe, probes, counters,
                   missing, idx, enabled>>
    /\ UNCHANGED engVars
    /\ UNCHANGED devVars
    /\ UNCHANGED mainVars

\* the name is stored in place of the enable offset
WithNameDropsField(cfg, name) ==
    [k \in (DOMAIN cfg \ {"enable_offset"}) \cup {"name"} |->
        IF k = "name" THEN name ELSE cfg[k]]

\* line 578: platform_config["name"] = args.platform
WithName(cfg, name) ==
    [k \in DOMAIN cfg \cup {"name"} |-> IF k = "name" THEN name ELSE cfg[k]]

\* lines 558-603: the arguments are read and the port is opened
MainOpen ==
    /\ pc = "start"
    /\ \E p \in Platforms, c \in Commands :
         /\ platform' = p
         /\ args_command' = c
         /\ configs' = [configs EXCEPT ![p] = WithName(@, p)]
         /\ pc' = c
    /\ port' = "open"
    /\ opens' = opens + 1
    /\ inbuf' = <<>>
    /\ UNCHANGED <<result, runs, prev>>
    /\ UNCHANGED detVars
    /\ UNCHANGED engVars
    /\ UNCHANGED devVars
    /\ UNCHANGED wfVars

\* lines 612-614: an unknown command prints the usage
UnknownCommand ==
    /\ pc = "bogus"
    /\ pc' = "close"
    /\ UNCHANGED <<platform, port, result, inbuf>>
    /\ UNCHANGED engVars
    /\ UNCHANGED devVars
    /\ UNCHANGED wfVars
    /\ UNCHANGED mainVars

\* line 599: the with statement closes the port; main returns
Close ==
    /\ pc = "close"
    /\ port' = "closed"
    /\ pc' = "exit"
    /\ inbuf' = <<>>
    /\ UNCHANGED <<platform, result>>
    /\ UNCHANGED engVars
    /\ UNCHANGED devVars
    /\ UNCHANGED wfVars
    /\ UNCHANGED mainVars

----------------------------------------------------------------------------
(* Exits of main by an exception *)

\* lines 599, 615-635: serial.Serial raises SerialException, main returns
OpenFails ==
    /\ pc = "start"
    /\ \E p \in Platforms, c \in Commands :
         /\ platform' = p
         /\ args_command' = c
         /\ configs' = [configs EXCEPT ![p] = WithName(@, p)]
    /\ outcome' = "open_failed"
    /\ pc' = "exit"
    /\ UNCHANGED <<port, result, inbuf, opens, runs, prev, probe, probes,
                   counters, missing, idx, enabled, summary>>
    /\ UNCHANGED detVars
    /\ UNCHANGED engVars
    /\ UNCHANGED devVars

\* The exception leaves the frames of the workflow and of send_command:
\* their locals are gone, the call under way is abandoned.
Unwound ==
    /\ eng' = (IF eng = "IDLE" THEN "IDLE" ELSE "ABORTED")
    /\ command' = <<>>
    /\ value' = None
    /\ response' = <<>>
    /\ command_echoed' = FALSE
    /\ elapsed' = 0
    /\ ret' = <<>>
    /\ result' = None
    /\ recv' = <<>>
    /\ exitReason' = "none"
    /\ leak' = FALSE
    /\ preFlush' = FALSE
    /\ partial' = FALSE
    /\ flushed' = 0
    /\ caller' = "none"
    /\ probe' = 0
    /\ counters' = <<>>
    /\ missing' = <<>>
    /\ idx' = 0
    /\ enabled' = FALSE
    /\ summary' = NoSummary
    /\ inbuf' = <<>>
    /\ UNCHANGED <<platform, written, returned, probes>>
    /\ UNCHANGED devVars
    /\ UNCHANGED mainVars

\* the exception passes a port that is never closed
InterruptPortLeft ==
    /\ port = "open"
    /\ pc \notin {"start", "exit"}
    /\ UNCHANGED port
    /\ outcome' = "interrupted"
    /\ pc' = "exit"
    /\ Unwound

\* lines 599, 637-638: KeyboardInterrupt while the port is open; the with
\* statement closes the port, main prints and returns
Interrupt ==
    /\ port = "open"
    /\ pc \notin {"start", "exit"}
    /\ port' = "closed"
    /\ outcome' = "interrupted"
    /\ pc' = "exit"
    /\ Unwound

\* lines 599, 615-635: a call on the open port raises SerialException; the
\* with statement closes the port, main prints and returns
SerialError ==
    /\ port = "open"
    /\ pc \notin {"start", "exit", "close"}
    /\ port' = "closed"
    /\ outcome' = "serial_error"
    /\ pc' = "exit"
    /\ Unwound

----------------------------------------------------------------------------
(* The detect command *)

\* Candidate ports and baud rates that are tried.
MaxPorts == 2

MaxBauds == 2

\* lines 118-125
common_ports ==
    <<"/dev/ttyACM0", "/dev/ttyACM1", "/dev/ttyUSB0", "/dev/ttyUSB1",
      "/dev/ttyS0", "/dev/ttyS1">>

\* line 58
COMMON_BAUDRATES ==
    <<9600, 19200, 38400, 57600, 115200, 230400, 460800, 921600>>

\* the candidates within the bounds
DetectPorts == SubSeq(common_ports, 1, MaxPorts)

DetectBauds == SubSeq(COMMON_BAUDRATES, 1, MaxBauds)

\* auto_detect_serial_port returning None
NoPort == "None"

\* what a port may send back after a test input: nothing, a line end, the
\* idle prompt
ProbeReplies == {<<>>, <<CR, NL>>, <<PROMPT, SP>>}

\* lines 82-100: some test input got a reply that is not only whitespace
test_serial_connection(replies) ==
    \E k \in 1..Len(test_commands) : Strip(replies[k]) # <<>>

\* the ports of a list that are in a set, in the order of the list
RECURSIVE Keep(_, _)
Keep(ports, S) ==
    IF ports = <<>> THEN <<>>
    ELSE (IF Head(ports) \in S THEN <<Head(ports)>> ELSE <<>>)
         \o Keep(Tail(ports), S)

\* lines 575-590, 103-141: main calls auto_detect_serial_port, which lists
\* the candidate ports that exist and can be opened
MainDetect ==
    /\ pc = "start"
    /\ \E p \in Platforms :
         /\ platform' = p
         /\ configs' = [configs EXCEPT ![p] = WithName(@, p)]
    /\ args_command' = "detect"
    /\ \E S \in SUBSET {DetectPorts[i] : i \in 1..Len(DetectPorts)} :
         available_ports' = Keep(DetectPorts, S)
    /\ port_i' = 1
    /\ baud_i' = 1
    /\ pc' = "detect"
    /\ UNCHANGED <<port, result, inbuf, opens, runs, prev, detected, swept>>
    /\ UNCHANGED engVars
    /\ UNCHANGED devVars
    /\ UNCHANGED wfVars

\* lines 143-150: no port is available
DetectNoPorts ==
    /\ pc = "detect"
    /\ available_ports = <<>>
    /\ detected' = NoPort
    /\ pc' = "detected"
    /\ UNCHANGED <<platform, port, result, inbuf, configs, args_command,
                   opens, runs, prev, available_ports, port_i, baud_i, swept>>
    /\ UNCHANGED engVars
    /\ UNCHANGED devVars
    /\ UNCHANGED wfVars

\* lines 155-167: the next (port, baud) pair is opened and probed; opening
\* may raise, the probe may end with or without a reply
DetectTry ==
    /\ pc = "detect"
    /\ port_i <= Len(available_ports)
    /\ LET pair == [port |-> available_ports[port_i],
                    baud |-> DetectBauds[baud_i]]
           next_baud == IF baud_i < Len(DetectBauds) THEN baud_i + 1 ELSE 1
           next_port == IF baud_i < Len(DetectBauds) THEN port_i
                        ELSE port_i + 1
       IN  \/ /\ swept' = Append(swept, pair @@ [result |-> "open_failed"])
              /\ port_i' = next_port
              /\ baud_i' = next_baud
              /\ UNCHANGED <<pc, detected>>
           \/ \E replies \in [1..Len(test_commands) -> ProbeReplies] :
                IF test_serial_connection(replies)
                THEN /\ swept' = Append(swept, pair @@ [result |-> "replied"])
                     /\ detected' = pair.port
                     /\ pc' = "detected"
                     /\ UNCHANGED <<port_i, baud_i>>
                ELSE /\ swept' = Append(swept, pair @@ [result |-> "silent"])
                     /\ port_i' = next_port
                     /\ baud_i' = next_baud
                     /\ UNCHANGED <<pc, detected>>
    /\ UNCHANGED <<platform, port, result, inbuf, configs, args_command,
                   opens, runs, prev, available_ports>>
    /\ UNCHANGED engVars
    /\ UNCHANGED devVars
    /\ UNCHANGED wfVars

\* lines 169-176: no pair answered; the first available port is returned
DetectGiveUp ==
    /\ pc = "detect"
    /\ available_ports # <<>>
    /\ port_i > Len(available_ports)
    /\ detected' = available_ports[1]
    /\ pc' = "detected"
    /\ UNCHANGED <<platform, port, result, inbuf, configs, args_command,
                   opens, runs, prev, available_ports, port_i, baud_i, swept>>
    /\ UNCHANGED engVars
    /\ UNCHANGED devVars
    /\ UNCHANGED wfVars

\* lines 591-594: a port that was returned is printed as recommended
DetectReport ==
    /\ pc = "detected"
    /\ outcome' = (IF detected # NoPort THEN "recommended" ELSE "none")
    /\ pc' = "exit"
    /\ UNCHANGED <<platform, port, result, inbuf, probe, probes, counters,
                   missing, idx, enabled, summary>>
    /\ UNCHANGED engVars
    /\ UNCHANGED devVars
    /\ UNCHANGED mainVars

----------------------------------------------------------------------------
(* A device that keeps its enable register *)

\* Invocations of the program, one after the other.
MaxRuns == 2

\* values the counter registers are read with
RegCounterHex == {<<"0">>, <<"2", "A">>}

\* the device has dealt with everything that was written to it
DeviceActed == emitted = written + probes

\* the lines the shell prints for an input: the echo, the answer of devmem,
\* the prompt without a line end
RegLines(input, answer) ==
    LET line(text, nl) ==
            [text |-> text, nl |-> nl, stale |-> FALSE, at |-> written]
    IN  (IF input # <<>> THEN <<line(input, TRUE)>> ELSE <<>>)
        \o (IF answer # <<>> THEN <<line(answer, TRUE)>> ELSE <<>>)
        \o <<line(<<PROMPT, SP>>, FALSE)>>

\* The device deals with the input it was sent last: it answers, a write
\* to the enable register being stored and a read of it answered with what
\* is stored, or it leaves the input unanswered.
RegReply ==
    /\ port = "open"
    /\ ~DeviceActed
    /\ emitted' = emitted + 1
    /\ \/ /\ dropped' = TRUE
          /\ UNCHANGED <<inbuf, reg>>
       \/ /\ pc = "probe_read"
          /\ inbuf' = inbuf \o RegLines(<<>>, <<>>)
          /\ UNCHANGED <<reg, dropped>>
       \/ /\ pc # "probe_read"
          /\ Len(command) = 4
          /\ reg' = (IF command[4] = DecTok(1) THEN 1 ELSE 0)
          /\ inbuf' = inbuf \o RegLines(command,
                                        <<WRITING_VALUE, HexLit(<<"1">>)>>)
          /\ UNCHANGED dropped
       \/ /\ pc # "probe_read"
          /\ Len(command) = 3
          /\ \E h \in (IF command[2] \in {EnableReg(p) : p \in Platforms}
                        THEN {<<LowerHexDigits[reg + 1]>>}
                        ELSE RegCounterHex) :
               inbuf' = inbuf \o RegLines(command, <<READ_VALUE, HexLit(h)>>)
          /\ UNCHANGED <<reg, dropped>>
    /\ UNCHANGED <<pc, platform, port, result, devCmd, devLate>>
    /\ UNCHANGED engVars
    /\ UNCHANGED wfVars
    /\ UNCHANGED mainVars

\* the device has answered, or not, when the wait of line 86 is over
RegProbeRead == DeviceActed /\ ProbeRead

\* the device has answered, or not, when the settle delay is over
RegSettle == DeviceActed /\ Settle

\* lines 641-642: the program is started again; the device is as it was
Restart ==
    /\ pc = "exit"
    /\ runs < MaxRuns
    /\ runs' = runs + 1
    /\ prev' = [cmd |-> args_command, outcome |-> outcome]
    /\ pc' = "start"
    /\ platform' = "nrf5340"
    /\ port' = "closed"
    /\ configs' = PLATFORM_CONFIGS
    /\ args_command' = "none"
    /\ opens' = 0
    /\ outcome' = "none"
    /\ written' = 0
    /\ returned' = 0
    /\ probes' = 0
    /\ emitted' = 0
    /\ devCmd' = <<>>
    /\ eng' = "IDLE"
    /\ command' = <<>>
    /\ value' = None
    /\ response' = <<>>
    /\ command_echoed' = FALSE
    /\ elapsed' = 0
    /\ ret' = <<>>
    /\ result' = None
    /\ recv' = <<>>
    /\ exitReason' = "none"
    /\ leak' = FALSE
    /\ preFlush' = FALSE
    /\ partial' = FALSE
    /\ flushed' = 0
    /\ caller' = "none"
    /\ probe' = 0
    /\ counters' = <<>>
    /\ missing' = <<>>
    /\ idx' = 0
    /\ enabled' = FALSE
    /\ summary' = NoSummary
    /\ inbuf' = <<>>
    /\ UNCHANGED <<devLate, reg, dropped>>
    /\ UNCHANGED detVars

----------------------------------------------------------------------------

\* no invocation came before
NoRun == [cmd |-> "none", outcome |-> "none"]

\* nothing has run yet
Fresh ==
    /\ pc = "start"
    /\ platform = "nrf5340"
    /\ port = "closed"
    /\ eng = "IDLE"
    /\ command = <<>>
    /\ value = None
    /\ response = <<>>
    /\ command_echoed = FALSE
    /\ elapsed = 0
    /\ ret = <<>>
    /\ result = None
    /\ inbuf = <<>>
    /\ emitted = 0
    /\ devCmd = <<>>
    /\ devLate = FALSE
    /\ written = 0
    /\ returned = 0
    /\ recv = <<>>
    /\ exitReason = "none"
    /\ leak = FALSE
    /\ preFlush = FALSE
    /\ flushed = 0
    /\ caller = "none"
    /\ probe = 0
    /\ probes = 0
    /\ outcome = "none"
    /\ counters = <<>>
    /\ missing = <<>>
    /\ idx = 0
    /\ partial = FALSE
    /\ enabled = FALSE
    /\ summary = NoSummary
    /\ configs = PLATFORM_CONFIGS
    /\ args_command = "none"
    /\ opens = 0
    /\ runs = 1
    /\ prev = NoRun
    /\ dropped = FALSE
    /\ available_ports = <<>>
    /\ port_i = 0
    /\ baud_i = 0
    /\ detected = NoPort
    /\ swept = <<>>

Init == Fresh /\ reg = 0

EngineNext == Settle \/ ReadLine \/ PollSleep \/ Deadline

Next ==
    \/ MainOpen
    \/ UnknownCommand
    \/ EnableStart
    \/ ProbeWrite
    \/ ProbeRead
    \/ EnableWrite
    \/ EnableAfterWrite
    \/ EnableReadback
    \/ EnableAfterReadback
    \/ ReadCheck
    \/ ReadAfterCheck
    \/ ReadCounter
    \/ ReadAfterCounter
    \/ ReadSummary
    \/ DisableWrite
    \/ DisableAfterWrite
    \/ DisableReadback
    \/ DisableAfterReadback
    \/ Close
    \/ Settle
    \/ ReadLine
    \/ PollSleep
    \/ Deadline
    \/ DevEmit
    \/ DevCatchUp

Spec == Init /\ [][Next]_vars

\* send_command is sequential code: while it runs, its next step is taken.
LiveSpec == Spec /\ WF_vars(EngineNext)

\* main with its exits by an exception
FaultNext == Next \/ OpenFails \/ Interrupt \/ SerialError

FaultSpec == Init /\ [][FaultNext]_vars

\* main run with the detect command
DetectNext ==
    \/ MainDetect
    \/ DetectNoPorts
    \/ DetectTry
    \/ DetectGiveUp
    \/ DetectReport

DetectSpec == Init /\ [][DetectNext]_vars

\* the device's enable register holds 0 or 1 when the program is first run
RegInit == Fresh /\ reg \in {0, 1}

\* main run against the device that keeps its enable register and answers
\* at once or not at all
RegNext ==
    \/ MainOpen
    \/ UnknownCommand
    \/ EnableStart
    \/ ProbeWrite
    \/ RegProbeRead
    \/ EnableWrite
    \/ EnableAfterWrite
    \/ EnableReadback
    \/ EnableAfterReadback
    \/ ReadCheck
    \/ ReadAfterCheck
    \/ ReadCounter
    \/ ReadAfterCounter
    \/ ReadSummary
    \/ DisableWrite
    \/ DisableAfterWrite
    \/ DisableReadback
    \/ DisableAfterReadback
    \/ Close
    \/ RegSettle
    \/ ReadLine
    \/ PollSleep
    \/ Deadline
    \/ RegReply
    \/ Restart

RegSpec == RegInit /\ [][RegNext]_vars

----------------------------------------------------------------------------
(* Properties *)

\* send_command has returned and its caller has taken the value
ResultReady == eng = "IDLE" /\ exitReason # "none"

\* execute_devmem has returned
DevmemReturned == ResultReady /\ caller = "execute_devmem"

HasTok(text, t) == \E i \in 1..Len(text) : text[i] = t

HasMarker(line) ==
    HasTok(line, PROMPT) \/ HasTok(line, READ_VALUE)
    \/ HasTok(line, WRITING_VALUE)

RECURSIVE JoinLines(_)
JoinLines(lines) ==
    IF lines = <<>> THEN <<>>
    ELSE Head(lines) \o <<NL>> \o JoinLines(Tail(lines))

\* the non-empty lines without the first one that holds the command
RECURSIVE Collected(_, _, _)
Collected(lines, cmd, echoSeen) ==
    IF lines = <<>> THEN <<>>
    ELSE IF Head(lines) = <<>> THEN Collected(Tail(lines), cmd, echoSeen)
    ELSE IF ~echoSeen /\ Contains(Head(lines), cmd)
    THEN Collected(Tail(lines), cmd, TRUE)
    ELSE Head(lines) \o <<NL>> \o Collected(Tail(lines), cmd, echoSeen)

\* C1: commands are strictly serialized: at most one command is outstanding,
\* a command is written only after the response to the one before it was
\* returned, and when send_command is not running every command written has
\* had exactly one response.
C1_Serialized ==
    /\ written - returned \in {0, 1}
    /\ (eng \in {"IDLE", "DONE"} => written = returned)
    /\ (eng \in {"SENT", "COLLECT"} => written = returned + 1)

\* three commands were written one after the other, the last one timed out
\* with an empty response
C1_Witness ==
    /\ written = 3
    /\ returned = 3
    /\ exitReason = "deadline"
    /\ ret = <<>>

\* a line stream: an echo, payload lines, one terminal-marker line
EchoPayloadMarker(lines, cmd) ==
    /\ Len(lines) >= 2
    /\ Contains(lines[1], cmd)
    /\ \A i \in 2..(Len(lines) - 1) :
         /\ lines[i] # <<>>
         /\ ~Contains(lines[i], cmd)
         /\ ~HasMarker(lines[i])
    /\ HasMarker(lines[Len(lines)])

\* C2: echo suppression: when the lines send_command received are a line
\* holding the command, N payload lines and a terminal-marker line, it
\* returns the payload lines and the terminal line, each followed by a
\* newline, in order, without the echo.
C2_EchoSuppressed ==
    (exitReason # "none" /\ EchoPayloadMarker(recv, command))
        => ret = JoinLines(SubSeq(recv, 2, Len(recv)))

\* an echo, one payload line and a marker line were received
C2_Witness ==
    /\ exitReason = "marker"
    /\ EchoPayloadMarker(recv, command)
    /\ Len(recv) = 3
    /\ ret = recv[2] \o <<NL>> \o recv[3] \o <<NL>>

\* C3 as stated: no text the device sent in reply to an earlier command is
\* ever part of the response to a later command.
C3_NoStaleReply == ~leak

\* C3 amended: text that was in the input buffer when send_command was called
\* (it arrived before the command was written) is never part of the response.
C3_NoPreFlushText == ~preFlush

\* the flush discarded waiting input, and a response was collected after it
C3_Witness ==
    /\ flushed > 0
    /\ exitReason # "none"
    /\ ret # <<>>

UpperHexDigits ==
    <<"0", "1", "2", "3", "4", "5", "6", "7",
      "8", "9", "A", "B", "C", "D", "E", "F">>

DigitOf(c) ==
    CHOOSE v \in 0..15 : LowerHexDigits[v + 1] = c \/ UpperHexDigits[v + 1] = c

RECURSIVE Pow16(_)
Pow16(n) == IF n = 0 THEN 1 ELSE 16 * Pow16(n - 1)

\* the number a hexadecimal literal denotes: the sum of digit * 16^position
RECURSIVE HexValue(_)
HexValue(ds) ==
    IF ds = <<>> THEN 0
    ELSE DigitOf(Head(ds)) * Pow16(Len(ds) - 1) + HexValue(Tail(ds))

\* C6: a read whose response holds `Read value 0x<hex>` returns the number
\* the literal denotes; `Read value 0x0` gives the integer 0, not None.
C6_ReadDecoded ==
    (ResultReady /\ value = None) =>
        \A i \in 1..(Len(ret) - 1) :
            (ret[i] = READ_VALUE /\ ret[i + 1].w = "0x" /\ ret[i + 1].d # <<>>)
                => result = PyInt(HexValue(ret[i + 1].d))

\* the device answered `Read value 0x0` and the read returned the integer 0
C6_Witness ==
    /\ ResultReady
    /\ value = None
    /\ ret = <<READ_VALUE, HexLit(<<"0">>), NL>>
    /\ result = PyInt(0)

ReportsZero(line) ==
    \E i \in 1..(Len(line) - 1) :
        /\ line[i] = READ_VALUE
        /\ line[i + 1].w = "0x"
        /\ line[i + 1].d # <<>>
        /\ \A j \in 1..Len(line[i + 1].d) : line[i + 1].d[j] = "0"

\* C7: a read whose reply stream holds no `Read value` line returns None,
\* and a read returns 0 only if the device reported the value 0.
C7_UnavailableIsNotZero ==
    (ResultReady /\ value = None) =>
        /\ ((\A j \in 1..Len(recv) : ~HasTok(recv[j], READ_VALUE))
               => result = None)
        /\ (result = PyInt(0) => \E j \in 1..Len(recv) : ReportsZero(recv[j]))

\* only the idle prompt came back and the read returned None
C7_Witness ==
    /\ ResultReady
    /\ value = None
    /\ recv = <<<<PROMPT>>>>
    /\ result = None

\* C8 as stated: a write is a success when the response holds
\* `Writing value`, is only the idle prompt, or is empty.
C8_WritePermissive ==
    (/\ DevmemReturned
     /\ value # None
     /\ \/ HasTok(ret, WRITING_VALUE)
        \/ ret = <<PROMPT, NL>>
        \/ ret = <<>>)
        => result = PyTrue

C10_OtherContentFails ==
    (/\ DevmemReturned
     /\ value # None
     /\ ret # <<>>
     /\ ~HasTok(ret, WRITING_VALUE)
     /\ ret # <<PROMPT, NL>>)
        => result = PyFalse

\* C10 amended: a write whose response is not empty is a failure exactly
\* when the response holds neither `Writing value` nor the idle prompt
\* anywhere; an error line followed by or joined with the prompt is a success.
C10_FailsWithoutMarker ==
    (DevmemReturned /\ value # None /\ ret # <<>>) =>
        /\ result \in {PyTrue, PyFalse}
        /\ (result = PyFalse
              <=> (~HasTok(ret, WRITING_VALUE) /\ ~HasTok(ret, PROMPT)))

\* a write answered by an error line alone was reported as failed
C10_Witness ==
    /\ DevmemReturned
    /\ value # None
    /\ ret = <<Tok("err"), NL>>
    /\ result = PyFalse

\* C12: read_cache_counters sends a counter read only after the enable
\* register was read as non-zero; when that read returned 0 or nothing, the
\* enable-register read is the only command of the run and the snapshot and
\* the summary stay empty.
C12_ReadPrecondition ==
    /\ (pc \in {"read_counter", "read_counted"} => enabled)
    /\ (pc = "read_counter" /\ idx = 1 => result # None /\ result.v # 0)
    /\ (args_command = "read" /\ written > 1 => enabled)
    /\ (args_command = "read" /\ pc \in {"close", "exit"} /\ ~enabled =>
          /\ written = 1
          /\ result \in {None, PyInt(0)}
          /\ counters = <<>>
          /\ missing = <<>>
          /\ summary = NoSummary
          /\ outcome = "failed")

\* the enable register was read as 0 and the run ended after that one command
C12_Witness ==
    /\ args_command = "read"
    /\ pc = "exit"
    /\ result = PyInt(0)
    /\ written = 1
    /\ counters = <<>>

\* check_cache_profiling_enabled has just returned
CheckReturned ==
    \/ (pc = "read_counter" /\ idx = 1)
    \/ (args_command = "read" /\ pc = "close" /\ written = 1)

\* C15 as stated: for base 0x50001000 and enable offset 0x50C the command
\* sent is `devmem 0x5000150C 32`, and the check reports enabled exactly when
\* the register read returned a non-zero value.
C15_EnableCheckUpperCase ==
    /\ (platform = "nrf5340" /\ pc = "read_checked" =>
          command = <<Tok("devmem"),
                      HexLit(<<"5", "0", "0", "0", "1", "5", "0", "C">>),
                      Tok("32")>>)
    /\ (CheckReturned => (enabled <=> (result # None /\ result.v # 0)))

\* C15 amended: for base 0x50001000 and enable offset 0x50C the address is
\* 0x5000150C, the command sent spells it with small hexadecimal digits,
\* `devmem 0x5000150c 32`; `Read value 0x00000001` yields enabled, and the
\* check reports enabled exactly when the register read returned a non-zero
\* value.
C15_EnableCheckLowerCase ==
    /\ PLATFORM_CONFIGS.nrf5340.base = Addr(20480, 4096)
    /\ PLATFORM_CONFIGS.nrf5340.enable_offset = 1292
    /\ AddOffset(Addr(20480, 4096), 1292) = Addr(20480, 5388)
    /\ (platform = "nrf5340" /\ pc = "read_checked" =>
          command = <<Tok("devmem"),
                      HexLit(<<"5", "0", "0", "0", "1", "5", "0", "c">>),
                      Tok("32")>>)
    /\ (CheckReturned /\ Contains(ret, <<READ_VALUE,
            HexLit(<<"0", "0", "0", "0", "0", "0", "0", "1">>)>>) => enabled)
    /\ (CheckReturned => (enabled <=> (result # None /\ result.v # 0)))

\* `devmem 0x5000150c 32` was answered by `Read value 0x00000001`
C15_Witness ==
    /\ platform = "nrf5340"
    /\ pc = "read_counter"
    /\ idx = 1
    /\ command = <<Tok("devmem"),
                   HexLit(<<"5", "0", "0", "0", "1", "5", "0", "c">>),
                   Tok("32")>>
    /\ ret = <<READ_VALUE, HexLit(<<"0", "0", "0", "0", "0", "0", "0", "1">>),
               NL>>
    /\ enabled

\* C16 as stated: the platform tables are never changed by a run.
C16_ConfigsUnchanged == configs = PLATFORM_CONFIGS

\* C16 amended: no profile is added or removed and no field a profile was
\* loaded with is changed or removed; main adds one field, `name`, holding
\* the platform's own name, to the selected profile before it opens the port,
\* and from then on the tables stay as they are.
C16_OnlyNameAdded ==
    /\ [](/\ DOMAIN configs = DOMAIN PLATFORM_CONFIGS
          /\ \A p \in DOMAIN PLATFORM_CONFIGS :
               /\ DOMAIN PLATFORM_CONFIGS[p] \subseteq DOMAIN configs[p]
               /\ DOMAIN configs[p] \ DOMAIN PLATFORM_CONFIGS[p]
                     \subseteq {"name"}
               /\ \A k \in DOMAIN PLATFORM_CONFIGS[p] :
                     configs[p][k] = PLATFORM_CONFIGS[p][k]
               /\ ("name" \in DOMAIN configs[p] =>
                     /\ pc # "start"
                     /\ p = platform
                     /\ configs[p].name = p)
          /\ (pc # "start" => "name" \in DOMAIN configs[platform]))
    /\ [][pc # "start" => configs' = configs]_vars

\* a read ran to its summary with the name stored in the selected profile
C16_Witness ==
    /\ pc = "exit"
    /\ args_command = "read"
    /\ outcome = "ok"
    /\ "name" \in DOMAIN configs[platform]
    /\ configs # PLATFORM_CONFIGS

\* the number of tokens t in text
RECURSIVE CountTok(_, _)
CountTok(text, t) ==
    IF text = <<>> THEN 0
    ELSE (IF Head(text) = t THEN 1 ELSE 0) + CountTok(Tail(text), t)

\* C17: send_command withholds at most one line, the first received line
\* that holds the command text; the response is the other non-empty lines
\* received, in their order of arrival, a second line holding the command
\* text included.
C17_AtMostOneSuppressed ==
    exitReason # "none" =>
        LET nonEmpty == {i \in 1..Len(recv) : recv[i] # <<>>}
            echoes == {i \in nonEmpty : Contains(recv[i], command)}
            kept == IF echoes = {} THEN nonEmpty
                    ELSE nonEmpty \ {SetMin(echoes)}
        IN  /\ CountTok(ret, NL) = Cardinality(kept)
            /\ Cardinality(nonEmpty) - CountTok(ret, NL) \in {0, 1}
            /\ ret = Collected(recv, command, FALSE)
            /\ \A i \in kept : Contains(ret, recv[i] \o <<NL>>)
            /\ \A i, j \in kept :
                 i < j => \E a, b \in 1..Len(ret) :
                            /\ a + Len(recv[i]) < b
                            /\ SubSeq(ret, a, a + Len(recv[i])) = recv[i] \o <<NL>>
                            /\ SubSeq(ret, b, b + Len(recv[j])) = recv[j] \o <<NL>>

\* two lines holding the command arrived: the first was withheld, the second
\* is part of the response
C17_Witness ==
    /\ exitReason = "marker"
    /\ Len(recv) = 3
    /\ Contains(recv[1], command)
    /\ Contains(recv[2], command)
    /\ ret = recv[2] \o <<NL>> \o recv[3] \o <<NL>>

\* C18: collection halts at the first appended line that holds a terminal
\* marker: while send_command collects, its response holds no marker; a
\* returned response holds a marker in its last line only; no line received
\* after the marker line is taken; and the withheld echo does not end the
\* collection even when it holds the prompt.
C18_HaltsAtFirstMarker ==
    /\ (eng = "COLLECT" => ~HasMarker(response))
    /\ (exitReason # "none" =>
          \A i, j \in 1..Len(ret) :
              (HasMarker(<<ret[i]>>) /\ ret[j] = NL /\ i < j) => j = Len(ret))
    /\ (exitReason = "marker" =>
          /\ recv # <<>>
          /\ HasMarker(recv[Len(recv)])
          /\ Contains(ret, recv[Len(recv)] \o <<NL>>)
          /\ ret[Len(ret)] = NL)
    /\ (exitReason = "deadline" => ~HasMarker(ret))
    /\ \A i \in 1..Len(recv) :
          (HasMarker(recv[i]) /\ (i < Len(recv) \/ eng = "COLLECT")) =>
              /\ Contains(recv[i], command)
              /\ \A h \in 1..(i - 1) : ~Contains(recv[h], command)

\* the echo came on the prompt's line and did not end the collection; the
\* `Read value` line after it did
C18_Witness ==
    /\ exitReason = "marker"
    /\ Len(recv) = 2
    /\ HasTok(recv[1], PROMPT)
    /\ Contains(recv[1], command)
    /\ HasTok(recv[2], READ_VALUE)
    /\ ret = recv[2] \o <<NL>>

\* C19 as stated: readline hands send_command a line only when its line end
\* was received; a fragment without line end is never classified.
C19_OnlyCompleteLines == ~partial

\* C19 amended: readline hands send_command a line when its line end was
\* received, at once, and a fragment whose line end has not come when the
\* port's read timeout is over; the fragment is stripped, matched against the
\* command and the markers, and appended, like a complete line.
C19_FragmentIsALine ==
    [][Len(recv') = Len(recv) + 1 =>
        LET chunk == Head(inbuf)
            line == recv'[Len(recv')]
        IN  /\ line = Strip(chunk.text)
            /\ partial' = (partial \/ ~chunk.nl)
            /\ elapsed' = (IF chunk.nl THEN elapsed
                           ELSE Min(ElapsedCap, elapsed + READ_TIMEOUT))
            /\ IF line = <<>> THEN response' = response /\ eng' = eng
               ELSE IF ~command_echoed /\ Contains(line, command)
               THEN response' = response /\ command_echoed' /\ eng' = eng
               ELSE /\ response' = response \o line \o <<NL>>
                    /\ eng' = (IF HasMarker(line) THEN "DONE" ELSE eng)
    ]_vars

\* the idle prompt came without a line end and ended the collection
C19_Witness ==
    /\ partial
    /\ exitReason = "marker"
    /\ recv = <<<<PROMPT>>>>
    /\ ret = <<PROMPT, NL>>

\* C20: a call of send_command writes its command once: the count of
\* commands written goes up by one when the call starts and stays as it is
\* while the call collects, ends on a marker or ends on the deadline.
C20_NoRetry ==
    [][/\ written' \in {written, written + 1}
       /\ (written' # written => eng = "IDLE" /\ eng' = "SENT")
       /\ (eng = "IDLE" /\ eng' = "SENT" => written' = written + 1)
       /\ (eng \in {"SENT", "COLLECT", "DONE"} => written' = written)
    ]_vars

\* a write timed out, was reported as failed and was not sent again
C20_Witness ==
    /\ args_command = "disable"
    /\ pc = "exit"
    /\ exitReason = "deadline"
    /\ written = 1
    /\ returned = 1
    /\ outcome = "failed"

\* C11: against a device that keeps its enable register and answers
\* everything it is sent, enable ends with success, readback 1 and the
\* register at 1, disable with success, readback 0 and the register at 0,
\* whatever the register held before; a workflow run again right after
\* itself reports what it reported the first time.
C11_Idempotent ==
    (pc = "exit" /\ ~dropped) =>
        /\ (args_command = "enable" =>
              outcome = "ok" /\ result = PyInt(1) /\ reg = 1)
        /\ (args_command = "disable" =>
              outcome = "ok" /\ result = PyInt(0) /\ reg = 0)
        /\ (args_command \in {"enable", "disable"} /\ prev.cmd = args_command
              => outcome = prev.outcome)

\* disable was run twice in a row; the second run found the register at 0
\* and reported success with readback 0, as the first did
C11_Witness ==
    /\ pc = "exit"
    /\ ~dropped
    /\ runs = 2
    /\ prev = [cmd |-> "disable", outcome |-> "ok"]
    /\ args_command = "disable"
    /\ outcome = "ok"
    /\ result = PyInt(0)
    /\ reg = 0

\* C13: a run of main that opened the serial port has closed it when main
\* returns, on every way out: after any command, after an unknown command,
\* after SerialException in a workflow, after KeyboardInterrupt; the port is
\* opened at most once per invocation and is open only inside the
\* workflows.
C13_PortReleased ==
    /\ (pc = "exit" => port = "closed")
    /\ opens \in {0, 1}
    /\ (port = "open" <=> (opens = 1 /\ pc \notin {"start", "exit"}))
    /\ (pc = "exit" /\ outcome \in {"ok", "failed", "interrupted",
                                     "serial_error"} => opens = 1)

\* the user interrupted a send_command call; main returned, the port closed
C13_Witness ==
    /\ pc = "exit"
    /\ outcome = "interrupted"
    /\ eng = "ABORTED"
    /\ opens = 1
    /\ port = "closed"

\* the counter was read into the snapshot
WasRead(name) == \E i \in 1..Len(counters) : counters[i].name = name

\* the counter is on the list of unreadable counters
IsMissing(name) == \E i \in 1..Len(missing) : missing[i] = name

\* C14: the summary shows the total and hit rate of a counter group only
\* when the hit and the miss counter of the group were both read, and the
\* overall figures of a split profile only when all four counters were read;
\* a counter that is missing keeps every aggregate it would enter from being
\* computed.
C14_AggregateGated ==
    (args_command = "read" /\ pc \in {"close", "exit"}) =>
        /\ (summary.cache.shown =>
              /\ WasRead("hit") /\ WasRead("miss")
              /\ summary.cache.total
                    = CounterGet(counters, "hit").v
                      + CounterGet(counters, "miss").v)
        /\ (summary.instruction.shown =>
              WasRead("instruction_hit") /\ WasRead("instruction_miss"))
        /\ (summary.data.shown =>
              WasRead("data_hit") /\ WasRead("data_miss"))
        /\ (summary.overall.shown =>
              /\ WasRead("instruction_hit") /\ WasRead("instruction_miss")
              /\ WasRead("data_hit") /\ WasRead("data_miss"))
        /\ (IsMissing("hit") \/ IsMissing("miss") => ~summary.cache.shown)
        /\ (IsMissing("instruction_hit") \/ IsMissing("instruction_miss")
              => ~summary.instruction.shown /\ ~summary.overall.shown)
        /\ (IsMissing("data_hit") \/ IsMissing("data_miss")
              => ~summary.data.shown /\ ~summary.overall.shown)

\* three of the four counters of the split profile were read: the group
\* with both counters has its hit rate, the other group and the overall
\* figures are left out
C14_Witness ==
    /\ args_command = "read"
    /\ pc = "exit"
    /\ platform = "nrf5340"
    /\ WasRead("instruction_hit")
    /\ WasRead("instruction_miss")
    /\ WasRead("data_hit")
    /\ IsMissing("data_miss")
    /\ summary.instruction.shown
    /\ ~summary.data.shown
    /\ ~summary.overall.shown

\* the text of the enable register's address, per platform
EnableRegText ==
    [nrf5340 |-> HexLit(<<"5", "0", "0", "0", "1", "5", "0", "c">>),
     nrf54l15 |-> HexLit(<<"e", "0", "0", "8", "2", "4", "1", "4">>)]

\* The commands of a workflow that writes v and expects to read v back:
\* one write carrying v; one read, only after the write was taken for a
\* success; success reported exactly when the readback is v.
WriteThenReadback(name, v, writtenAt, readbackAt, readAt) ==
    /\ (pc = writtenAt =>
          /\ written = 1
          /\ value = PyInt(v)
          /\ command = <<Tok("devmem"), EnableRegText[platform], Tok("32"),
                         Tok(IF v = 1 THEN "1" ELSE "0")>>)
    /\ (pc = readbackAt => written = 1 /\ result = PyTrue)
    /\ (pc = readAt =>
          /\ written = 2
          /\ value = None
          /\ command = <<Tok("devmem"), EnableRegText[platform], Tok("32")>>)
    /\ (args_command = name /\ pc \in {"close", "exit"} =>
          /\ written \in {0, 1, 2}
          /\ (written = 1 => result \in {None, PyFalse})
          /\ (outcome = "ok" <=> (written = 2 /\ result = PyInt(v))))

\* C21 as stated: enable and disable are the same sequence of transport
\* operations, a write and one readback, with the values 1 and 0, and send
\* nothing else to the device.
C21_NothingElseSent ==
    /\ WriteThenReadback("enable", 1, "enable_written", "enable_readback",
                         "enable_read")
    /\ WriteThenReadback("disable", 0, "disable_written", "disable_readback",
                         "disable_read")
    /\ (args_command \in {"enable", "disable"} => probes = 0)

\* C21 amended: enable and disable send the same commands, a write carrying
\* 1 or 0 and, after a write taken for a success, one readback, success
\* being reported exactly when the readback is the value written; enable,
\* and only enable, first sends up to five inputs of the liveness probe and
\* writes nothing when none of them is answered.
C21_SymmetricAfterProbe ==
    /\ WriteThenReadback("enable", 1, "enable_written", "enable_readback",
                         "enable_read")
    /\ WriteThenReadback("disable", 0, "disable_written", "disable_readback",
                         "disable_read")
    /\ (args_command = "disable" => probes = 0)
    /\ (args_command = "enable" =>
          /\ probes \in 0..Len(test_commands)
          /\ (written > 0 => probes >= 1)
          /\ (pc \in {"close", "exit"} /\ written = 0 =>
                probes = Len(test_commands) /\ outcome = "failed"))

\* enable sent two probe inputs, then the write of 1 and the readback, and
\* reported success
C21_Witness ==
    /\ args_command = "enable"
    /\ pc = "exit"
    /\ probes = 2
    /\ written = 2
    /\ result = PyInt(1)
    /\ outcome = "ok"

\* the counters a profile defines, in the order they are read, with the
\* text of their addresses
ExpectedCounters ==
    IF platform = "nrf54l15"
    THEN <<[name |-> "hit",
            addr |-> HexLit(<<"e", "0", "0", "8", "2", "4", "1", "c">>)],
           [name |-> "miss",
            addr |-> HexLit(<<"e", "0", "0", "8", "2", "4", "2", "0">>)],
           [name |-> "line_miss",
            addr |-> HexLit(<<"e", "0", "0", "8", "2", "4", "2", "4">>)]>>
    ELSE <<[name |-> "instruction_hit",
            addr |-> HexLit(<<"5", "0", "0", "0", "1", "4", "0", "0">>)],
           [name |-> "instruction_miss",
            addr |-> HexLit(<<"5", "0", "0", "0", "1", "4", "0", "4">>)],
           [name |-> "data_hit",
            addr |-> HexLit(<<"5", "0", "0", "0", "1", "4", "0", "8">>)],
           [name |-> "data_miss",
            addr |-> HexLit(<<"5", "0", "0", "0", "1", "4", "0", "c">>)]>>

\* C22: once the enable check passed, read_cache_counters sends one read
\* for every counter of the profile, in order, whatever became of the reads
\* before; each counter dealt with is in the snapshot, with the integer that
\* was read, or on the missing list, never in both, never in neither; at the
\* end this holds for every counter of the profile.
C22_SnapshotComplete ==
    (args_command = "read" /\ enabled) =>
        LET E == ExpectedCounters
            done == IF pc \in {"close", "exit"} THEN Len(E)
                    ELSE idx - 1
        IN  /\ done \in 0..Len(E)
            /\ (pc = "read_counted" =>
                  /\ written = idx + 1
                  /\ command = <<Tok("devmem"), E[idx].addr, Tok("32")>>)
            /\ (pc = "read_counter" => written = idx)
            /\ (pc \in {"close", "exit"} => written = 1 + Len(E))
            /\ Len(counters) + Len(missing) = done
            /\ \A i \in 1..done : WasRead(E[i].name) # IsMissing(E[i].name)
            /\ \A i \in 1..Len(counters) :
                 /\ counters[i].val \in Nat
                 /\ \E k \in 1..done : E[k].name = counters[i].name
            /\ \A i \in 1..Len(missing) :
                 \E k \in 1..done : E[k].name = missing[i]

\* the second of three counters could not be read; the third was read all
\* the same, and the first is in the snapshot with the value 0
C22_Witness ==
    /\ args_command = "read"
    /\ pc = "exit"
    /\ platform = "nrf54l15"
    /\ counters = <<[name |-> "hit", val |-> 0],
                    [name |-> "line_miss", val |-> 42]>>
    /\ missing = <<"miss">>

\* the place of a (port, baud) pair in the order of the sweep: the ports in
\* the order they were found, for each port the baud rates in their order
SweepPlace(pair) ==
    LET p == CHOOSE i \in 1..Len(available_ports) :
                 available_ports[i] = pair.port
        b == CHOOSE i \in 1..Len(DetectBauds) : DetectBauds[i] = pair.baud
    IN  (p - 1) * Len(DetectBauds) + b

\* C23 as stated: auto_detect_serial_port tries the (port, baud) pairs in
\* order, opens no pair after the first one whose probe got a reply, returns
\* a port on which the probe got a reply, and returns no port when no pair
\* answered.
C23_PicksWorkingPort ==
    (args_command = "detect" /\ pc \in {"detected", "exit"}) =>
        /\ \A i \in 1..Len(swept) : SweepPlace(swept[i]) = i
        /\ \A i \in 1..(Len(swept) - 1) : swept[i].result # "replied"
        /\ (detected # NoPort =>
              /\ swept # <<>>
              /\ swept[Len(swept)].result = "replied"
              /\ swept[Len(swept)].port = detected)
        /\ ((\A i \in 1..Len(swept) : swept[i].result # "replied")
              => detected = NoPort)

====
